---- MODULE Spec2Model ----
(***************************************************************************)
(* Model of gemini.py: the JSON metadata store (load_metadata,             *)
(* save_metadata), the add command (main, add_to_index, extract_from_*,    *)
(* index_content), the retry wrapper (safe_generate_content), the          *)
(* relevance selector (get_structured_uuids_response) and the query        *)
(* pipeline (query_lectures).                                              *)
(*                                                                         *)
(* The collaborators (the Gemini service, FFmpeg, the file system) are the *)
(* environment: every call to them is a nondeterministic choice among the  *)
(* outcomes the call can have.                                             *)
(***************************************************************************)
EXTENDS Integers, Sequences, FiniteSets, TLC

\* ---------------------------------------------------------------- bounds
\* Largest number of records a store holds in the model.
MaxRecords == 2
\* Largest number of ids in one answer of the relevance selector.
MaxIds == 2
\* Largest number of files named by one add command.
MaxFiles == 2

\* ------------------------------------------------------ program constants
MAX_API_RETRIES == 3
API_RETRY_DELAY == 5
FILE_TYPES == <<"Video", "Audio", "Image", "Text", "PDF">>
VIDEO_BASE_DIR == "lectures"

\* ------------------------------------------------------------------ values
\* A Python "str | None": None, or a text.  A text is a sequence of tokens;
\* "Error:" is one token, so a prefix test and a substring test differ.
None == [some |-> FALSE, text |-> <<>>]
Text(t) == [some |-> TRUE, text |-> t]
\* Python truthiness of a str | None.
Truthy(v) == v.some /\ v.text # <<>>
\* Python's  "Error:" in s.
ContainsError(t) == \E i \in 1..Len(t) : t[i] = "Error:"

\* The texts the generative service answers with.
CollabTexts == {<<>>, <<"fact">>, <<"see", "Error:", "x">>}
\* The text the final synthesis request is answered with.
SynthTexts == {<<>>, <<"Topic", "fact">>, <<"see", "Error:", "x">>}
\* The string safe_generate_content returns when its retries are used up.
RetryErrorText == <<"Error:", "API call failed after retries">>
\* The summary add_to_index stores when index_content gives nothing.
SUMMARY_SENTINEL == <<"Error:", "Summary not generated.">>

\* One attempt of client.models.generate_content as safe_generate_content
\* sees it: an exception, a falsy response, or a response with a .text
\* (which may be None).
Raise == [o |-> "raise", val |-> None]
Falsy == [o |-> "falsy", val |-> None]
Resp(v) == [o |-> "text", val |-> v]
AttemptOutcomes(texts) ==
    {Raise, Falsy, Resp(None)} \cup {Resp(Text(t)) : t \in texts}

\* ------------------------------------------------------------------- paths
Pth(dir, no, stem, ext) == [dir |-> dir, no |-> no, stem |-> stem, ext |-> ext]
NoPath == Pth("", 0, "", "")
\* Path.name
Name(p) == [p EXCEPT !.dir = ""]
\* The source file an add command names, by type.
SrcOf(type) ==
    Pth("in", 0, "lec",
        CASE type = "Video" -> "mov"
          [] type = "Audio" -> "wav"
          [] type = "Image" -> "png"
          [] type = "Text" -> "txt"
          [] OTHER -> "pdf")

\* ---------------------------------------------------------- dictionaries
\* A Python dict as the sequence of its items in insertion order.  The keys
\* of the store are an int (next_uuid) or a str (a key read from JSON, or
\* str(UUID)); 1 and "1" are different keys.
IntKey(n) == [t |-> "int", n |-> n]
\* Python's str(n) for an int n
Str(n) == [t |-> "str", n |-> n]
\* json.dump writes an int key as its string
JsonKey(k) == [t |-> "str", n |-> k.n]

DictHas(d, k) == \E i \in 1..Len(d) : d[i].key = k
DictGet(d, k) == d[CHOOSE i \in 1..Len(d) : d[i].key = k].val
\* d[k] = v : a present key keeps its place, a new key goes last
DictSet(d, k, v) ==
    IF DictHas(d, k)
    THEN [i \in 1..Len(d) |-> IF d[i].key = k THEN [key |-> k, val |-> v] ELSE d[i]]
    ELSE Append(d, [key |-> k, val |-> v])
\* the dict a sequence of (key, value) pairs builds, later pairs winning
RECURSIVE DictFromPairs(_)
DictFromPairs(ps) ==
    IF ps = <<>> THEN <<>>
    ELSE LET n == Len(ps)
         IN DictSet(DictFromPairs(SubSeq(ps, 1, n - 1)), ps[n].key, ps[n].val)

\* ----------------------------------------------------------------- records
Record(path, filename, type, arch, summary) ==
    [Path |-> path, Filename |-> filename, Type |-> type,
     Archive |-> arch, index_summary |-> summary]
NoRecord == Record(<<>>, NoPath, "", NoPath, <<>>)

\* ------------------------------------------------------- the backing file
\* lecture_data.json: absent; not JSON; a JSON value that is no object
\* (such as []); an object without "UUID"; an object whose "UUID" is no
\* mapping (such as {"UUID": 5}); or a store, the pairs of its "UUID" object
\* in file order.
File(k, entries) == [k |-> k, entries |-> entries]
FileKinds == {"absent", "unparsable", "nonobject", "noUUID", "badUUID", "store"}

\* What load_metadata returns: a dict with a "UUID" dict, or something else.
Meta(k, uuid) == [k |-> k, UUID |-> uuid]
EmptyStore == Meta("dict", <<>>)

load_metadata(f) ==
    CASE f.k = "absent" -> [raised |-> "", val |-> EmptyStore]
      \* json.JSONDecodeError is caught
      [] f.k = "unparsable" -> [raised |-> "", val |-> EmptyStore]
      \* "UUID" not in data, then data["UUID"] = {} on a list, a number, null
      [] f.k = "nonobject" -> [raised |-> "TypeError", val |-> EmptyStore]
      [] f.k = "noUUID" -> [raised |-> "", val |-> EmptyStore]
      \* "UUID" in data: returned as it is
      [] f.k = "badUUID" -> [raised |-> "", val |-> Meta("other", <<>>)]
      [] OTHER -> [raised |-> "", val |-> Meta("dict", DictFromPairs(f.entries))]

\* A save that writes the newest record alone.
save_metadata_OnlyNew(m) ==
    File("store", [i \in 1..(IF m.UUID = <<>> THEN 0 ELSE 1) |->
                      [key |-> JsonKey(m.UUID[Len(m.UUID)].key),
                       val |-> m.UUID[Len(m.UUID)].val]])

\* json.dump(data): every item of data["UUID"], its key as a string
save_metadata(m) ==
    File("store", [i \in 1..Len(m.UUID) |->
                      [key |-> JsonKey(m.UUID[i].key), val |-> m.UUID[i].val]])

NextId_NoIncrement(m) == Len(m.UUID)
\* len(metadata["UUID"]) + 1
NextId(m) == Len(m.UUID) + 1

\* ------------------------------------------------ safe_generate_content
\* A wrapper that sleeps after every failure, the last one too, and falls
\* out of the loop.
RECURSIVE RetryFrom_SleepAfterLast(_, _, _, _)
RetryFrom_SleepAfterLast(outcomes, retries, attempt, delays) ==
    IF attempt >= retries
    THEN [result |-> None, attempts |-> attempt, delays |-> delays]
    ELSE LET o == outcomes[attempt + 1]
         IN CASE o.o = "falsy" -> [result |-> None, attempts |-> attempt + 1, delays |-> delays]
              [] o.o = "text" -> [result |-> o.val, attempts |-> attempt + 1, delays |-> delays]
              [] OTHER -> RetryFrom_SleepAfterLast(outcomes, retries, attempt + 1, delays + 1)

\* The loop  for attempt in range(retries)  from the attempt with index
\* `attempt` on; outcomes[attempt + 1] is what the service does at that
\* attempt.  The result, the number of attempts made and of sleeps taken.
RECURSIVE RetryFrom(_, _, _, _)
RetryFrom(outcomes, retries, attempt, delays) ==
    IF attempt >= retries
    THEN [result |-> None, attempts |-> attempt, delays |-> delays]
    ELSE LET o == outcomes[attempt + 1]
         IN CASE o.o = "falsy" ->
                   [result |-> None, attempts |-> attempt + 1, delays |-> delays]
              [] o.o = "text" ->
                   [result |-> o.val, attempts |-> attempt + 1, delays |-> delays]
              [] OTHER ->
                   IF attempt < retries - 1
                   THEN RetryFrom(outcomes, retries, attempt + 1, delays + 1)
                   ELSE [result |-> Text(RetryErrorText),
                         attempts |-> attempt + 1, delays |-> delays]

\* A wrapper whose loop is one attempt short.
safe_generate_content_OneFewer(outcomes, retries) == RetryFrom(outcomes, retries - 1, 0, 0)

safe_generate_content(outcomes, retries) == RetryFrom(outcomes, retries, 0, 0)

\* What the service does at each of the attempts one call may make: it
\* raises at the first `fails` attempts and then gives `last`.  The loop
\* never reads an outcome after the first that is no exception, so these
\* sequences stand for all.
OutcomeSeqs(texts) ==
    {[i \in 1..MAX_API_RETRIES |-> IF i <= fails THEN Raise ELSE last] :
        fails \in 0..MAX_API_RETRIES, last \in AttemptOutcomes(texts) \ {Raise}}
\* ------------------------------------------ get_structured_uuids_response
\* The selector's return value: None, or the parsed JSON object, which the
\* response schema makes an object with an optional integer array "UUIDs".
SelNone == [some |-> FALSE, hasUUIDs |-> FALSE, UUIDs |-> <<>>]
SelEmptyObject == [some |-> TRUE, hasUUIDs |-> FALSE, UUIDs |-> <<>>]
SelList(ids) == [some |-> TRUE, hasUUIDs |-> TRUE, UUIDs |-> ids]
\* Python truthiness of  dict | None : None and {} are falsy
SelTruthy(r) == r.some /\ r.hasUUIDs

\* What the single generate_content call of the selector does: it raises,
\* answers with an empty text, with a text that is no JSON, or with JSON.
SelRaise == [o |-> "raise", parsed |-> SelNone]
SelEmptyText == [o |-> "emptytext", parsed |-> SelNone]
SelBadJson == [o |-> "badjson", parsed |-> SelNone]
SelJson(p) == [o |-> "json", parsed |-> p]

\* A request to the service: its kind, the record it is about (0: none) and
\* the number of summaries it carries (the selector's request).
Req(kind, id, n) == [kind |-> kind, id |-> id, n |-> n]

get_structured_uuids_response_EarlyReturn(data, outcome) ==
    IF data = <<>>
    THEN [result |-> SelList(<<>>), requests |-> <<>>]
    ELSE [result |-> IF outcome.o = "json" THEN outcome.parsed ELSE SelNone,
          requests |-> <<Req("select", 0, Len(data))>>]

\* A selector that sends its request a second time.
get_structured_uuids_response_Twice(data, outcome) ==
    [result |-> IF outcome.o = "json" THEN outcome.parsed ELSE SelNone,
     requests |-> <<Req("select", 0, Len(data)), Req("select", 0, Len(data))>>]

\* data is the id -> summary dict.  One request, whatever data holds; every
\* exception is caught and gives None.
get_structured_uuids_response(data, outcome) ==
    [result |-> IF outcome.o = "json" THEN outcome.parsed ELSE SelNone,
     requests |-> <<Req("select", 0, Len(data))>>]

\* ------------------------------------------------------------------- state
VARIABLES
    file,               \* lecture_data.json
    pc,                 \* where the running command is
    err,                \* the uncaught exception that ended the command
    out,                \* what the command printed
    reqs,               \* the requests the command sent to the service
    queue,              \* main: the files of the add command still to add
    metadata,           \* add_to_index, query_lectures: the loaded store
    next_uuid,          \* add_to_index
    file_paths,         \* add_to_index: the normalized files
    paths,              \* add_to_index: those of file_paths that exist
    archive,            \* add_to_index
    videos_data,        \* query_lectures: id -> summary
    selected,           \* query_lectures: what the selector returned
    relevant_ids,       \* query_lectures
    idx,                \* query_lectures: position of the loop over relevant_ids
    individual_answers, \* query_lectures
    synthesis_context,  \* query_lectures
    final_answer,       \* query_lectures
    retry_outcomes,     \* safe_generate_content: what the service does at each attempt
    retry_result,       \* safe_generate_content: the value returned, attempts, sleeps
    procs               \* add commands run as processes side by side: their locals

addVars == <<queue, next_uuid, file_paths, paths, archive>>
queryVars == <<videos_data, selected, relevant_ids, idx, individual_answers,
               synthesis_context, final_answer>>
retryVars == <<retry_outcomes, retry_result>>
vars == <<file, pc, err, out, reqs, metadata, addVars, queryVars, retryVars, procs>>

NoErr == [at |-> "", exc |-> ""]
Err(at, exc) == [at |-> at, exc |-> exc]
\* One printed message: what it says, the text and the context it shows.
Msg(kind, val, ctx) == [msg |-> kind, val |-> val, ctx |-> ctx]
Say(kind) == Msg(kind, None, <<>>)

\* A command has ended: normally, by sys.exit(1), or by an uncaught exception.
Ended == {"Idle", "Exit0", "Exit1", "Crashed"}

\* The locals of a command that has not run yet.
FreshLocals ==
    /\ metadata = EmptyStore
    /\ next_uuid = 0
    /\ file_paths = <<>>
    /\ paths = <<>>
    /\ archive = NoPath
    /\ videos_data = <<>>
    /\ selected = SelNone
    /\ relevant_ids = <<>>
    /\ idx = 0
    /\ individual_answers = <<>>
    /\ synthesis_context = <<>>
    /\ final_answer = None

\* safe_generate_content has not been called.
NoCall == [result |-> None, attempts |-> 0, delays |-> 0]
FreshRetry ==
    /\ retry_outcomes = <<>>
    /\ retry_result = NoCall

\* A new process starts: its locals are fresh.
ResetLocals ==
    /\ metadata' = EmptyStore
    /\ next_uuid' = 0
    /\ file_paths' = <<>>
    /\ paths' = <<>>
    /\ archive' = NoPath
    /\ videos_data' = <<>>
    /\ selected' = SelNone
    /\ relevant_ids' = <<>>
    /\ idx' = 0
    /\ individual_answers' = <<>>
    /\ synthesis_context' = <<>>
    /\ final_answer' = None

\* The files a run can find in place of a store.
GarbageFiles == {File(k, <<>>) : k \in FileKinds \ {"store"}}

\* The number of records of the file's store (0 when it holds none).
StoreSize(f) == IF f.k = "store" THEN Len(DictFromPairs(f.entries)) ELSE 0

\* ------------------------------------------------------------- add: main
\* main runs add_to_index over the pdf, video, audio, image and text files
\* of the command, in this order.
MainRank(type) ==
    CASE type = "PDF" -> 1
      [] type = "Video" -> 2
      [] type = "Audio" -> 3
      [] type = "Image" -> 4
      [] OTHER -> 5
Types == {FILE_TYPES[i] : i \in 1..Len(FILE_TYPES)}
AddCommands ==
    {q \in UNION {[1..n -> Types] : n \in 0..MaxFiles} :
        \A i \in 1..Len(q) : \A j \in i..Len(q) : MainRank(q[i]) <= MainRank(q[j])}

Crash(at, exc) ==
    /\ pc' = "Crashed"
    /\ err' = Err(at, exc)

\* main, up to the loops over the files: FFmpeg is looked up first.
MainAdd ==
    /\ pc \in Ended
    /\ \E ffmpegFound \in BOOLEAN, q \in AddCommands :
        /\ StoreSize(file) + Len(q) <= MaxRecords
        /\ pc' = IF ffmpegFound THEN "AddLoop" ELSE "Exit1"
        /\ queue' = IF ffmpegFound THEN q ELSE <<>>
    /\ err' = NoErr
    /\ out' = <<>>
    /\ reqs' = <<>>
    /\ ResetLocals
    /\ UNCHANGED file
    /\ UNCHANGED <<retryVars, procs>>

\* main: the loops are over.
MainEnd ==
    /\ pc = "AddLoop"
    /\ queue = <<>>
    /\ pc' = "Exit0"
    /\ UNCHANGED <<file, err, out, reqs, metadata, addVars, queryVars>>
    /\ UNCHANGED <<retryVars, procs>>

\* ----------------------------------------------------------- add_to_index
\* Lines 623-627: load the store and allocate the id.
AddBegin ==
    /\ pc = "AddLoop"
    /\ queue # <<>>
    /\ LET r == load_metadata(file)
       IN IF r.raised # ""
          THEN Crash("load_metadata", r.raised) /\ UNCHANGED <<metadata, next_uuid>>
          ELSE IF r.val.k # "dict"
          THEN /\ Crash("add_to_index:len", "TypeError")
               /\ metadata' = r.val
               /\ UNCHANGED next_uuid
          ELSE /\ metadata' = r.val
               /\ next_uuid' = NextId(r.val)
               /\ pc' = "AddNormalize"
               /\ UNCHANGED err
    /\ UNCHANGED <<file, out, reqs, queue, file_paths, paths, archive, queryVars>>
    /\ UNCHANGED <<retryVars, procs>>

\* An extraction that reports its failure and goes on to return the names
\* of the files it did not make.
extract_from_video_NoReturn(src, f, ffmpegFound, ffmpegOk) ==
    LET no == Len(load_metadata(f).val.UUID) + 1
    IN [ok |-> TRUE,
        msg |-> IF ffmpegFound /\ ffmpegOk THEN ""
                ELSE IF ffmpegFound THEN "FFmpegFailed" ELSE "FFmpegNotFound",
        list |-> <<Pth(VIDEO_BASE_DIR, no, src.stem, "mp4"),
                   Pth(VIDEO_BASE_DIR, no, src.stem, "opus")>>]

\* extract_from_video: the two derived files, named by an id read from the
\* file again, or None (<<>> with ok FALSE) and the error it prints.
extract_from_video(src, f, ffmpegFound, ffmpegOk) ==
    LET no == Len(load_metadata(f).val.UUID) + 1
    IN IF ffmpegFound /\ ffmpegOk
       THEN [ok |-> TRUE, msg |-> "",
             list |-> <<Pth(VIDEO_BASE_DIR, no, src.stem, "mp4"),
                        Pth(VIDEO_BASE_DIR, no, src.stem, "opus")>>]
       ELSE [ok |-> FALSE, list |-> <<>>,
             msg |-> IF ffmpegFound THEN "FFmpegFailed" ELSE "FFmpegNotFound"]

extract_from_audio(src, ffmpegFound, ffmpegOk) ==
    IF ffmpegFound /\ ffmpegOk
    THEN [ok |-> TRUE, msg |-> "", list |-> <<Pth(VIDEO_BASE_DIR, 0, src.stem, "opus")>>]
    ELSE [ok |-> FALSE, list |-> <<>>,
          msg |-> IF ffmpegFound THEN "FFmpegFailed" ELSE "FFmpegNotFound"]

\* shutil.copy(src, dir): the path of the copy
CopyTo(src, dir) == [src EXCEPT !.dir = dir]
ArchiveDir == "lectures/Archive"

\* The members of a list of paths at the positions ex, in order.
RECURSIVE Existing(_, _)
Existing(ps, ex) ==
    IF ps = <<>> THEN <<>>
    ELSE LET n == Len(ps)
             rest == Existing(SubSeq(ps, 1, n - 1), ex)
         IN IF n \in ex THEN Append(rest, ps[n]) ELSE rest

\* Lines 628-654: normalize the file.  srcExists: the file named on the
\* command line exists; ffmpegOk: FFmpeg exits with status 0 (it cannot when
\* its input is missing); ex: the positions of the normalized files that
\* exist afterwards.
AddNormalize ==
    /\ pc = "AddNormalize"
    /\ \E srcExists \in BOOLEAN, ffmpegFound \in BOOLEAN, ffmpegOk \in BOOLEAN :
        LET type == Head(queue)
            src == SrcOf(type)
            ext == CASE type = "Video" ->
                          extract_from_video(src, file, ffmpegFound, ffmpegOk /\ srcExists)
                     [] type = "Audio" ->
                          extract_from_audio(src, ffmpegFound, ffmpegOk /\ srcExists)
                     [] OTHER ->
                          [ok |-> TRUE, msg |-> "",
                           list |-> <<CopyTo(src, VIDEO_BASE_DIR)>>]
            warned == IF srcExists THEN out ELSE Append(out, Say("FileMissing"))
        IN /\ out' = IF ext.msg # "" THEN Append(warned, Say(ext.msg)) ELSE warned
           /\ IF ~srcExists
              THEN \* shutil.copy of a missing file
                   /\ Crash("shutil.copy", "FileNotFoundError")
                   /\ UNCHANGED <<file_paths, paths, archive>>
              ELSE IF ~ext.ok
              THEN \* paths = None, then paths.copy()
                   /\ Crash("add_to_index:paths.copy", "AttributeError")
                   /\ archive' = CopyTo(src, ArchiveDir)
                   /\ UNCHANGED <<file_paths, paths>>
              ELSE \E ex \in SUBSET (1..Len(ext.list)) :
                   /\ file_paths' = ext.list
                   /\ paths' = Existing(ext.list, ex)
                   /\ archive' = IF type \in {"Video", "Audio"}
                                 THEN CopyTo(src, ArchiveDir) ELSE NoPath
                   /\ pc' = "AddIndex"
                   /\ UNCHANGED err
    /\ UNCHANGED <<file, reqs, queue, metadata, next_uuid, queryVars>>
    /\ UNCHANGED <<retryVars, procs>>

\* ----------------------------------------------------------- index_content
\* The first position of fps whose upload raises: the file is not among
\* `existing` (open() fails, nothing is sent), or it is the upload the
\* service fails (upFail; 0: none).  0 when every upload succeeds.
FirstBadUpload(fps, existing, upFail) ==
    LET bad == {i \in 1..Len(fps) :
                   (\A j \in 1..Len(existing) : existing[j] # fps[i]) \/ i = upFail}
    IN IF bad = {} THEN 0 ELSE CHOOSE i \in bad : \A j \in bad : i <= j

\* The upload requests sent for the first n files of which `sent` reach the
\* service, for the record id.
Uploads(id, sent) == [i \in 1..sent |-> Req("upload", id, i)]

\* Lines 347-374.  No file is dropped from the list (line 351 appends the
\* missing ones too); client.files.upload is not guarded.
index_content(fps, existing, upFail, outcomes) ==
    LET bad == FirstBadUpload(fps, existing, upFail)
        missing == bad # 0 /\ \A j \in 1..Len(existing) : existing[j] # fps[bad]
        response_text == safe_generate_content(outcomes, MAX_API_RETRIES).result
    IN IF bad # 0
       THEN [raised |-> IF missing THEN "FileNotFoundError" ELSE "APIError",
             result |-> None,
             requests |-> Uploads(0, IF missing THEN bad - 1 ELSE bad)]
       ELSE [raised |-> "",
             result |-> IF Truthy(response_text) THEN response_text ELSE None,
             requests |-> Uploads(0, Len(fps)) \o <<Req("index", 0, Len(fps))>>]

\* An add that keeps no record of a file whose indexing failed.
Put_SkipFailed(m, id, data) ==
    IF data.index_summary[1] = "Error:" THEN m
    ELSE [m EXCEPT !.UUID = DictSet(@, IntKey(id), data)]
Put_NextKey(m, id, data) == [m EXCEPT !.UUID = DictSet(@, IntKey(id + 1), data)]
\* metadata["UUID"][id] = data
Put(m, id, data) == [m EXCEPT !.UUID = DictSet(@, IntKey(id), data)]

\* Lines 655-671: build the record, index the files, put the record.
AddIndex ==
    /\ pc = "AddIndex"
    /\ \E upFail \in 0..Len(file_paths), outcomes \in OutcomeSeqs(CollabTexts) :
        LET r == index_content(file_paths, paths, upFail, outcomes)
            summary == IF Truthy(r.result) THEN r.result.text ELSE SUMMARY_SENTINEL
            data == Record(paths, Name(file_paths[1]), Head(queue), archive, summary)
        IN /\ reqs' = reqs \o r.requests
           /\ IF r.raised # ""
              THEN /\ Crash("index_content:upload", r.raised)
                   /\ UNCHANGED <<metadata, out>>
              ELSE /\ metadata' = Put(metadata, next_uuid, data)
                   /\ out' = Append(out, IF Truthy(r.result)
                                         THEN Msg("Summary", r.result, <<>>)
                                         ELSE Say("SummaryNotGenerated"))
                   /\ pc' = "AddSave"
                   /\ UNCHANGED err
    /\ UNCHANGED <<file, queue, next_uuid, file_paths, paths, archive, queryVars>>
    /\ UNCHANGED <<retryVars, procs>>

\* Line 672, and main goes to its next file.
AddSave ==
    /\ pc = "AddSave"
    /\ file' = save_metadata(metadata)
    /\ queue' = Tail(queue)
    /\ pc' = "AddLoop"
    /\ UNCHANGED <<err, out, reqs, metadata, next_uuid, file_paths, paths,
                   archive, queryVars>>
    /\ UNCHANGED <<retryVars, procs>>

\* --------------------------------------------------------- specification
\* The add command, run any number of times by one user at a time, from a
\* backing file that holds no record.
Init ==
    /\ file \in GarbageFiles \cup {File("store", <<>>)}
    /\ pc = "Idle"
    /\ err = NoErr
    /\ out = <<>>
    /\ reqs = <<>>
    /\ queue = <<>>
    /\ FreshLocals
    /\ FreshRetry
    /\ procs = <<>>

Next ==
    \/ MainAdd
    \/ MainEnd
    \/ AddBegin
    \/ AddNormalize
    \/ AddIndex
    \/ AddSave

Spec == Init /\ [][Next]_vars

\* ---------------------------------------------------------- query_lectures
\* The record add_to_index stores for the id n in the stores a query starts
\* from: a video (two derived files) for an odd id, a PDF for an even id.
SampleRecord(n) ==
    LET type == IF n % 2 = 1 THEN "Video" ELSE "PDF"
        src == SrcOf(type)
        fps == IF type = "Video"
               THEN <<Pth(VIDEO_BASE_DIR, n, src.stem, "mp4"),
                      Pth(VIDEO_BASE_DIR, n, src.stem, "opus")>>
               ELSE <<CopyTo(src, VIDEO_BASE_DIR)>>
    IN Record(fps, Name(fps[1]), type,
              IF type = "Video" THEN CopyTo(src, ArchiveDir) ELSE NoPath,
              IF type = "Video" THEN <<"fact">> ELSE SUMMARY_SENTINEL)

\* The file after n adds of such records.
RECURSIVE StoreOfSize(_)
StoreOfSize(n) ==
    IF n = 0 THEN File("store", <<>>)
    ELSE LET m == load_metadata(StoreOfSize(n - 1)).val
         IN save_metadata(Put(m, NextId(m), SampleRecord(n)))

\* The selector's answers for a store of n records: it fails, or it gives
\* {} or up to MaxIds ids, among them an id (n + 1) no record has.
IdLists(n) == UNION {[1..k -> 1..(n + 1)] : k \in 0..MaxIds}
SelOutcomes(n) ==
    {SelRaise, SelEmptyText, SelBadJson, SelJson(SelEmptyObject)}
        \cup {SelJson(SelList(ids)) : ids \in IdLists(n)}

ValidAnswer_TruthyOnly(v) == Truthy(v)
\* ans and "Error:" not in ans  (lines 450 and 474)
ValidAnswer(v) == Truthy(v) /\ ~ContainsError(v.text)

\* Lines 446-452: the valid answers, each labelled by its id, in the order
\* of the dict.
RECURSIVE SynthesisContext(_)
SynthesisContext(answers) ==
    IF answers = <<>> THEN <<>>
    ELSE LET n == Len(answers)
             rest == SynthesisContext(SubSeq(answers, 1, n - 1))
         IN IF ValidAnswer(answers[n].val)
            THEN Append(rest, [uuid |-> answers[n].key.n, ans |-> answers[n].val.text])
            ELSE rest

QueryStart_NoGuard ==
    /\ pc = "Idle"
    /\ LET r == load_metadata(file)
       IN IF r.raised # ""
          THEN Crash("load_metadata", r.raised) /\ UNCHANGED <<metadata, videos_data, out>>
          ELSE IF r.val.k # "dict"
          THEN /\ Crash("query_lectures:items", "AttributeError")
               /\ metadata' = r.val
               /\ UNCHANGED <<videos_data, out>>
          ELSE /\ metadata' = r.val
               /\ videos_data' = [i \in 1..Len(r.val.UUID) |->
                                    [key |-> r.val.UUID[i].key,
                                     val |-> r.val.UUID[i].val.index_summary]]
               /\ out' = Append(out, Say("Step1"))
               /\ pc' = "SelectingRelevance"
               /\ UNCHANGED err
    /\ UNCHANGED <<file, reqs, addVars, selected, relevant_ids, idx,
                   individual_answers, synthesis_context, final_answer>>
    /\ UNCHANGED <<retryVars, procs>>

\* Lines 380-404: load the store; without records the query ends here.
\* (json.dumps of a dict is never blank, so line 392 never returns.)
QueryStart ==
    /\ pc = "Idle"
    /\ LET r == load_metadata(file)
       IN IF r.raised # ""
          THEN Crash("load_metadata", r.raised) /\ UNCHANGED <<metadata, videos_data, out>>
          ELSE IF r.val.k # "dict"
          THEN \* a "UUID" such as 5: data.items()
               /\ Crash("query_lectures:items", "AttributeError")
               /\ metadata' = r.val
               /\ UNCHANGED <<videos_data, out>>
          ELSE IF r.val.UUID = <<>>
          THEN /\ metadata' = r.val
               /\ out' = Append(out, Say("NoLectures"))
               /\ pc' = "NoContent"
               /\ UNCHANGED <<videos_data, err>>
          ELSE /\ metadata' = r.val
               /\ videos_data' = [i \in 1..Len(r.val.UUID) |->
                                    [key |-> r.val.UUID[i].key,
                                     val |-> r.val.UUID[i].val.index_summary]]
               /\ out' = Append(out, Say("Step1"))
               /\ pc' = "SelectingRelevance"
               /\ UNCHANGED err
    /\ UNCHANGED <<file, reqs, addVars, selected, relevant_ids, idx,
                   individual_answers, synthesis_context, final_answer>>
    /\ UNCHANGED <<retryVars, procs>>

SelectorVerdict_NoEmptyCheck(r) ==
    IF ~SelTruthy(r) THEN "error" ELSE "relevant"

\* Lines 411-421: what query_lectures makes of the selector's return value.
SelectorVerdict(r) ==
    IF ~SelTruthy(r) THEN "error"
    ELSE IF r.UUIDs = <<>> THEN "none"
    ELSE "relevant"

\* Lines 406-423: the selector, and the two ways to end without answers.
SelectRelevance ==
    /\ pc = "SelectingRelevance"
    /\ \E outcome \in SelOutcomes(Len(metadata.UUID)) :
        LET r == get_structured_uuids_response(videos_data, outcome)
            verdict == SelectorVerdict(r.result)
        IN /\ reqs' = reqs \o r.requests
           /\ selected' = r.result
           /\ CASE verdict = "error" ->
                    /\ out' = Append(out, Say("ErrorDuringRelevanceCheck"))
                    /\ pc' = "NoneRelevant"
                    /\ UNCHANGED <<relevant_ids, idx>>
                [] verdict = "none" ->
                    /\ out' = Append(out, Say("NoLecturesSeemRelevant"))
                    /\ pc' = "NoneRelevant"
                    /\ UNCHANGED <<relevant_ids, idx>>
                [] OTHER ->
                    /\ out' = Append(out, Say("Step2"))
                    /\ relevant_ids' = r.result.UUIDs
                    /\ idx' = 1
                    /\ pc' = "AnsweringPerRecord"
    /\ UNCHANGED <<file, err, metadata, addVars, videos_data,
                   individual_answers, synthesis_context, final_answer>>
    /\ UNCHANGED <<retryVars, procs>>

\* Lines 427-442, one pass of the loop: look the record up, upload its
\* existing files (ex: the positions of those that exist), ask.
AnswerRecord ==
    /\ pc = "AnsweringPerRecord"
    /\ idx <= Len(relevant_ids)
    /\ LET UUID == relevant_ids[idx]
       IN IF ~DictHas(metadata.UUID, Str(UUID))
          THEN /\ Crash("query_lectures:lookup", "KeyError")
               /\ UNCHANGED <<reqs, idx, individual_answers>>
          ELSE \E ex \in SUBSET (1..Len(DictGet(metadata.UUID, Str(UUID)).Path)) :
               LET files == Existing(DictGet(metadata.UUID, Str(UUID)).Path, ex)
               IN \E upFail \in 0..Len(files) :
                  IF upFail # 0
                  THEN \* client.files.upload raises
                       /\ reqs' = reqs \o Uploads(UUID, upFail)
                       /\ Crash("query_lectures:upload", "APIError")
                       /\ UNCHANGED <<idx, individual_answers>>
                  ELSE \E outcomes \in OutcomeSeqs(CollabTexts) :
                       LET ans == safe_generate_content(outcomes, MAX_API_RETRIES).result
                       IN /\ reqs' = reqs \o Uploads(UUID, Len(files))
                                          \o <<Req("answer", UUID, Len(files))>>
                          /\ individual_answers' =
                                 DictSet(individual_answers, IntKey(UUID), ans)
                          /\ idx' = idx + 1
                          /\ pc' = IF idx = Len(relevant_ids)
                                   THEN "Synthesizing" ELSE "AnsweringPerRecord"
                          /\ UNCHANGED err
    /\ UNCHANGED <<file, out, metadata, addVars, videos_data, selected,
                   relevant_ids, synthesis_context, final_answer>>
    /\ UNCHANGED <<retryVars, procs>>

SynthesisReport_ShowsContext(ans, ctx) ==
    IF ValidAnswer(ans)
    THEN [pc |-> "Done", out |-> <<Msg("FinalAnswer", None, ctx)>>]
    ELSE [pc |-> "Failed",
          out |-> <<Msg("FailedToSynthesize", ans, <<>>),
                    Msg("IndividualAnswersUsed", None, ctx)>>]

SynthesisReport_NoContext(ans, ctx) ==
    IF ValidAnswer(ans)
    THEN [pc |-> "Done", out |-> <<Msg("FinalAnswer", ans, <<>>)>>]
    ELSE [pc |-> "Failed", out |-> <<Msg("FailedToSynthesize", ans, <<>>)>>]

\* Lines 474-482: the final answer, or the failure and the context used.
SynthesisReport(ans, ctx) ==
    IF ValidAnswer(ans)
    THEN [pc |-> "Done", out |-> <<Msg("FinalAnswer", ans, <<>>)>>]
    ELSE [pc |-> "Failed",
          out |-> <<Msg("FailedToSynthesize", ans, <<>>),
                    Msg("IndividualAnswersUsed", None, ctx)>>]

\* Lines 444-482: the emptiness check, the synthesis request, the report.
Synthesize ==
    /\ pc = "Synthesizing"
    /\ LET ctx == SynthesisContext(individual_answers)
       IN /\ synthesis_context' = ctx
          /\ IF ctx = <<>>
             THEN /\ out' = out \o <<Say("Step3"), Msg("NoValidAnswers", None, ctx)>>
                  /\ pc' = "Failed"
                  /\ UNCHANGED <<reqs, final_answer>>
             ELSE \E outcomes \in OutcomeSeqs(SynthTexts) :
                  LET ans == safe_generate_content(outcomes, MAX_API_RETRIES).result
                      report == SynthesisReport(ans, ctx)
                  IN /\ reqs' = Append(reqs, Req("synth", 0, Len(ctx)))
                     /\ final_answer' = ans
                     /\ out' = out \o <<Say("Step3")>> \o report.out
                     /\ pc' = report.pc
    /\ UNCHANGED <<file, err, metadata, addVars, videos_data, selected,
                   relevant_ids, idx, individual_answers>>
    /\ UNCHANGED <<retryVars, procs>>

\* One query command, from any backing file: no store, or the store a
\* number of adds leaves.
QueryFiles == GarbageFiles \cup {StoreOfSize(n) : n \in 0..MaxRecords}

InitQuery ==
    /\ file \in QueryFiles
    /\ pc = "Idle"
    /\ err = NoErr
    /\ out = <<>>
    /\ reqs = <<>>
    /\ queue = <<>>
    /\ FreshLocals
    /\ FreshRetry
    /\ procs = <<>>

NextQuery ==
    \/ QueryStart
    \/ SelectRelevance
    \/ AnswerRecord
    \/ Synthesize

SpecQuery == InitQuery /\ [][NextQuery]_vars

\* ------------------------------------------------- the selector on its own
\* get_structured_uuids_response applied to any id -> summary dict of up to
\* MaxRecords entries, the empty one among them.
Summaries == {<<"fact">>, SUMMARY_SENTINEL, RetryErrorText}
SummaryDicts ==
    UNION {{[i \in 1..n |-> [key |-> Str(i), val |-> f[i]]] : f \in [1..n -> Summaries]} :
              n \in 0..MaxRecords}

InitSel ==
    /\ file = File("absent", <<>>)
    /\ pc = "SelectorCall"
    /\ err = NoErr
    /\ out = <<>>
    /\ reqs = <<>>
    /\ queue = <<>>
    /\ metadata = EmptyStore
    /\ next_uuid = 0
    /\ file_paths = <<>>
    /\ paths = <<>>
    /\ archive = NoPath
    /\ videos_data \in SummaryDicts
    /\ selected = SelNone
    /\ relevant_ids = <<>>
    /\ idx = 0
    /\ individual_answers = <<>>
    /\ synthesis_context = <<>>
    /\ final_answer = None
    /\ FreshRetry
    /\ procs = <<>>

SelectorApply ==
    /\ pc = "SelectorCall"
    /\ \E outcome \in SelOutcomes(Len(videos_data)) :
        LET r == get_structured_uuids_response(videos_data, outcome)
        IN /\ reqs' = reqs \o r.requests
           /\ selected' = r.result
    /\ pc' = "SelectorReturned"
    /\ UNCHANGED <<file, err, out, metadata, addVars, videos_data, relevant_ids,
                   idx, individual_answers, synthesis_context, final_answer>>
    /\ UNCHANGED <<retryVars, procs>>

NextSel == SelectorApply

SpecSel == InitSel /\ [][NextSel]_vars

\* ------------------------------------------- the retry wrapper on its own
\* safe_generate_content called with the default retries, whatever the
\* service does at each of the attempts.
InitRetry ==
    /\ file = File("absent", <<>>)
    /\ pc = "RetryCall"
    /\ err = NoErr
    /\ out = <<>>
    /\ reqs = <<>>
    /\ queue = <<>>
    /\ FreshLocals
    /\ retry_outcomes \in [1..MAX_API_RETRIES -> AttemptOutcomes(CollabTexts)]
    /\ retry_result = NoCall
    /\ procs = <<>>

RetryApply ==
    /\ pc = "RetryCall"
    /\ retry_result' = safe_generate_content(retry_outcomes, MAX_API_RETRIES)
    /\ pc' = "RetryReturned"
    /\ UNCHANGED <<file, err, out, reqs, metadata, addVars, queryVars, retry_outcomes, procs>>

NextRetry == RetryApply

SpecRetry == InitRetry /\ [][NextRetry]_vars

\* --------------------------------------------------- adds and queries
\* Every command is a process of its own with fresh locals, and all that one
\* command leaves to the next is the backing file: add commands, run any
\* number of times, or a query command, from any backing file.
NextFrame ==
    \/ Next
    \/ NextQuery

SpecFrame == InitQuery /\ [][NextFrame]_vars

\* ------------------------------------------- two add commands side by side
\* Two processes run `add` with one file each, process 1 a text file and
\* process 2 a PDF, on the same backing file.  Each has its own locals; the
\* file is all they share, and nothing in the code locks it.
Procs == {1, 2}
RaceType(p) == IF p = 1 THEN "Text" ELSE "PDF"
RaceSrc(p) == [SrcOf(RaceType(p)) EXCEPT !.stem = IF p = 1 THEN "a" ELSE "b"]
\* The processes that have saved.
SavedProcs == {q \in Procs : procs[q].pc = "Saved"}
NewProc ==
    [pc |-> "Start", metadata |-> EmptyStore, next_uuid |-> 0, data |-> NoRecord,
     loadedAfter |-> {}, savedAfter |-> {}]

InitRace ==
    /\ file \in QueryFiles
    /\ pc = "Race"
    /\ err = NoErr
    /\ out = <<>>
    /\ reqs = <<>>
    /\ queue = <<>>
    /\ FreshLocals
    /\ FreshRetry
    /\ procs = [p \in Procs |-> NewProc]

\* Lines 626-627 in process p: load the store, allocate the id.  loadedAfter
\* notes the processes that had saved by then.
RaceLoad(p) ==
    /\ pc = "Race"
    /\ procs[p].pc = "Start"
    /\ LET r == load_metadata(file)
       IN procs' = [procs EXCEPT ![p] =
             IF r.raised # "" \/ r.val.k # "dict"
             THEN [@ EXCEPT !.pc = "Crashed"]
             ELSE [@ EXCEPT !.pc = "Loaded", !.metadata = r.val,
                            !.next_uuid = NextId(r.val),
                            !.loadedAfter = SavedProcs]]
    /\ UNCHANGED <<file, pc, err, out, reqs, metadata, addVars, queryVars, retryVars>>

\* Lines 628-671 in process p: the file is copied and indexed, which raises
\* (a missing file, a failed upload) or gives the record, put under the id.
RaceIndex(p) ==
    /\ pc = "Race"
    /\ procs[p].pc = "Loaded"
    /\ \E raised \in BOOLEAN, summary \in {<<"fact">>, SUMMARY_SENTINEL} :
        LET copy == CopyTo(RaceSrc(p), VIDEO_BASE_DIR)
            data == Record(<<copy>>, Name(copy), RaceType(p), NoPath, summary)
        IN procs' = [procs EXCEPT ![p] =
              IF raised
              THEN [@ EXCEPT !.pc = "Crashed"]
              ELSE [@ EXCEPT !.pc = "Put", !.data = data,
                             !.metadata = Put(@, procs[p].next_uuid, data)]]
    /\ UNCHANGED <<file, pc, err, out, reqs, metadata, addVars, queryVars, retryVars>>

\* A save that loads the file again and puts its record into what it finds.
RaceSave_Reload(p) ==
    /\ pc = "Race"
    /\ procs[p].pc = "Put"
    /\ LET m == load_metadata(file).val
       IN file' = save_metadata(Put(m, NextId(m), procs[p].data))
    /\ procs' = [procs EXCEPT ![p] = [@ EXCEPT !.pc = "Saved", !.savedAfter = SavedProcs]]
    /\ UNCHANGED <<pc, err, out, reqs, metadata, addVars, queryVars, retryVars>>

\* Line 672 in process p: the whole dict it holds goes to the file.
\* savedAfter notes the processes that had saved before.
RaceSave(p) ==
    /\ pc = "Race"
    /\ procs[p].pc = "Put"
    /\ file' = save_metadata(procs[p].metadata)
    /\ procs' = [procs EXCEPT ![p] = [@ EXCEPT !.pc = "Saved", !.savedAfter = SavedProcs]]
    /\ UNCHANGED <<pc, err, out, reqs, metadata, addVars, queryVars, retryVars>>

NextRace ==
    \E p \in Procs :
        \/ RaceLoad(p)
        \/ RaceIndex(p)
        \/ RaceSave(p)

SpecRace == InitRace /\ [][NextRace]_vars

\* ------------------------------------------------------------ claims: add
\* C1: after any sequence of adds by one writer, from a file without
\* records, the ids written in the store are exactly 1..N, N the number of
\* records written: no gap, no id twice.
C1_DenseIds ==
    file.k = "store" =>
        LET n == Len(file.entries)
        IN /\ {file.entries[i].key : i \in 1..n} = {Str(i) : i \in 1..n}
           /\ Len(DictFromPairs(file.entries)) = n
C1_Witness == file.k = "store" /\ Len(file.entries) >= 2

\* C2: the id add_to_index allocates for a store of N records is N + 1, and
\* once the record is put and saved, a fresh load finds the same record
\* under str(id), the lookup of query_lectures.
\* add_to_index has returned from save_metadata and has not been entered again
JustSaved == pc \in {"AddLoop", "Exit0"} /\ next_uuid # 0
C2_RoundTrip ==
    JustSaved =>
        LET m == load_metadata(file)
        IN /\ m.raised = ""
           /\ next_uuid = Len(metadata.UUID)
           /\ DictHas(metadata.UUID, IntKey(next_uuid))
           /\ DictHas(m.val.UUID, Str(next_uuid))
           /\ DictGet(m.val.UUID, Str(next_uuid)) = DictGet(metadata.UUID, IntKey(next_uuid))
C2_Witness ==
    /\ JustSaved
    /\ next_uuid = 2
    /\ Len(DictGet(metadata.UUID, IntKey(next_uuid)).Path) = 2

\* C3: load_metadata gives the empty store and does not raise whenever the
\* file is not a well-formed store.
C3_LoadNeverRaises ==
    file.k # "store" =>
        /\ load_metadata(file).raised = ""
        /\ load_metadata(file).val = EmptyStore

\* ---------------------------------------------------------- claims: query
SelectRequest == Req("select", 0, Len(videos_data))
SynthRequested == \E i \in 1..Len(reqs) : reqs[i].kind = "synth"
LastOut == out[Len(out)]

\* C4: a query on a store without records ends with the "no lectures"
\* message before the selector is called and before any request is sent.
C4_EmptyStoreShortCircuit ==
    (/\ pc # "Idle"
     /\ load_metadata(file).raised = ""
     /\ load_metadata(file).val = EmptyStore)
        => /\ pc = "NoContent"
           /\ out = <<Say("NoLectures")>>
           /\ reqs = <<>>
           /\ selected = SelNone
C4_Witness == pc = "NoContent" /\ file = File("store", <<>>)

\* C5 as claimed: the selector called with an empty id -> summary dict
\* returns an empty id list and sends no request.
C5_EmptyMappingNoRequest ==
    (pc = "SelectorReturned" /\ videos_data = <<>>)
        => selected = SelList(<<>>) /\ reqs = <<>>
\* C5 as amended: the selector called with an empty id -> summary dict sends
\* its one request like for any other dict, and returns None or the parsed
\* answer of the service.
C5_EmptyMappingOneRequest ==
    (pc = "SelectorReturned" /\ videos_data = <<>>)
        => /\ reqs = <<Req("select", 0, 0)>>
           /\ selected \in {SelNone} \cup {o.parsed : o \in SelOutcomes(0)}
C5_Witness ==
    pc = "SelectorReturned" /\ videos_data = <<>> /\ selected = SelList(<<1>>)

\* C6: when the selector fails (None) or gives an empty id list, the query
\* ends with the select request as its only request, and the message of a
\* failure is not the message of an empty list.
C6_NoneRelevantEnds ==
    LET failed == ~selected.some
        empty == selected.some /\ selected.hasUUIDs /\ selected.UUIDs = <<>>
    IN (reqs # <<>> /\ (failed \/ empty))
          => /\ pc = "NoneRelevant"
             /\ reqs = <<SelectRequest>>
             /\ failed => out = <<Say("Step1"), Say("ErrorDuringRelevanceCheck")>>
             /\ empty => out = <<Say("Step1"), Say("NoLecturesSeemRelevant")>>
C6_Witness ==
    pc = "NoneRelevant" /\ selected = SelList(<<>>) /\ Len(videos_data) = 2

\* C7: once the selector has given a non-empty id list, the query goes
\* through per-record answering to the synthesis step and ends in Done or
\* Failed, whatever the per-record calls give; no exception ends it.
C7_AnsweringReachesSynthesis ==
    relevant_ids # <<>> =>
        pc \in {"AnsweringPerRecord", "Synthesizing", "Done", "Failed"}

\* C8: when every per-record answer is None, empty or holds the error
\* marker, the query reports "no valid answers" and sends no synthesis
\* request.
C8_NoValidAnswers ==
    (/\ pc \in {"Done", "Failed"}
     /\ \A i \in 1..Len(individual_answers) :
           LET v == individual_answers[i].val
           IN ~v.some \/ v.text = <<>> \/ \E j \in 1..Len(v.text) : v.text[j] = "Error:")
        => /\ pc = "Failed"
           /\ LastOut = Msg("NoValidAnswers", None, <<>>)
           /\ ~SynthRequested
C8_Witness ==
    /\ pc = "Failed"
    /\ individual_answers = <<[key |-> IntKey(1), val |-> Text(RetryErrorText)],
                              [key |-> IntKey(2), val |-> Text(<<>>)]>>

\* C9: when the synthesis request was sent and came back with a non-empty
\* text without the error marker, the query is Done and the answer shown is
\* that text.
C9_DoneShowsFinalAnswer ==
    (/\ SynthRequested
     /\ final_answer.some
     /\ final_answer.text # <<>>
     /\ \A j \in 1..Len(final_answer.text) : final_answer.text[j] # "Error:")
        => /\ pc = "Done"
           /\ LastOut = Msg("FinalAnswer", final_answer, <<>>)
C9_Witness ==
    /\ pc = "Done"
    /\ file = StoreOfSize(1)
    /\ relevant_ids = <<1>>
    /\ individual_answers = <<[key |-> IntKey(1), val |-> Text(<<"fact">>)]>>
    /\ LastOut = Msg("FinalAnswer", Text(<<"Topic", "fact">>), <<>>)

\* C10: when the synthesis request comes back with nothing or with a text
\* that holds the error marker, the query is Failed and the last thing it
\* prints is the context of valid per-record answers it had sent.
C10_FailedShowsContext ==
    (/\ SynthRequested
     /\ \/ ~final_answer.some
        \/ final_answer.text = <<>>
        \/ \E j \in 1..Len(final_answer.text) : final_answer.text[j] = "Error:")
        => /\ pc = "Failed"
           /\ LastOut.msg = "IndividualAnswersUsed"
           /\ LastOut.ctx # <<>>
           /\ LastOut.ctx = synthesis_context
           /\ reqs[Len(reqs)] = Req("synth", 0, Len(LastOut.ctx))
           /\ \A i \in 1..Len(LastOut.ctx) :
                 DictGet(individual_answers, IntKey(LastOut.ctx[i].uuid))
                     = Text(LastOut.ctx[i].ans)
C10_Witness ==
    /\ pc = "Failed"
    /\ final_answer = Text(RetryErrorText)
    /\ Len(synthesis_context) = 2

\* --------------------------------------------------- claims: retry wrapper
Returned == pc = "RetryReturned"
\* The service raises at the first k attempts.
FailsFirst(k) == \A i \in 1..k : retry_outcomes[i] = Raise

\* C11: a call whose first k attempts fail (k below the retry bound) and
\* whose next attempt gives a response with text returns that text after
\* exactly k+1 attempts and exactly k sleeps.
C11_SucceedsAfterKFailures ==
    Returned =>
        \A k \in 0..(MAX_API_RETRIES - 1) :
            (FailsFirst(k) /\ retry_outcomes[k + 1].o = "text") =>
                /\ retry_result.result = retry_outcomes[k + 1].val
                /\ retry_result.attempts = k + 1
                /\ retry_result.delays = k

C11_Witness ==
    /\ Returned
    /\ retry_outcomes = <<Raise, Raise, Resp(Text(<<"fact">>))>>
    /\ retry_result = [result |-> Text(<<"fact">>), attempts |-> 3, delays |-> 2]

\* C12: the wrapper returns after at least one and at most MAX_API_RETRIES
\* attempts with a string or None, sleeps only between attempts, and when
\* every attempt fails returns a string that begins with "Error:" after
\* MAX_API_RETRIES attempts and MAX_API_RETRIES - 1 sleeps.
C12_BoundedAndErrorString ==
    Returned =>
        /\ retry_result.attempts \in 1..MAX_API_RETRIES
        /\ retry_result.delays = retry_result.attempts - 1
        /\ retry_result.result = None \/ retry_result.result.some
        /\ FailsFirst(MAX_API_RETRIES) =>
                /\ retry_result.result.some
                /\ retry_result.result.text # <<>>
                /\ retry_result.result.text[1] = "Error:"
                /\ retry_result.attempts = MAX_API_RETRIES
                /\ retry_result.delays = MAX_API_RETRIES - 1

C12_Witness ==
    /\ Returned
    /\ retry_outcomes = <<Raise, Raise, Raise>>
    /\ retry_result = [result |-> Text(RetryErrorText), attempts |-> 3, delays |-> 2]

\* ----------------------------------------------------- claims: indexing
\* index_content raised inside add_to_index.
IndexRaised == pc = "Crashed" /\ err.at = "index_content:upload"
\* index_content returned and add_to_index has put the record.
IndexReturned == pc = "AddSave"
NewRecord == DictGet(metadata.UUID, IntKey(next_uuid))

\* C13: called with a non-empty list of files that all exist, index_content
\* does not raise, whatever the uploads and the generation do, and the
\* summary add_to_index takes from it is a non-empty string (the text it
\* returned, or the sentinel when it returned None).
C13_IndexNeverRaises ==
    (file_paths # <<>> /\ paths = file_paths) =>
        /\ ~IndexRaised
        /\ IndexReturned => NewRecord.index_summary # <<>>

\* add_to_index has saved a record for which the service gave no usable
\* summary: index_content returned None (an empty or missing text), or the
\* string of safe_generate_content's used-up retries.
NoUsableSummary ==
    /\ JustSaved
    /\ LastOut \in {Say("SummaryNotGenerated"),
                    Msg("Summary", Text(RetryErrorText), <<>>)}
SavedRecord == DictGet(load_metadata(file).val.UUID, Str(next_uuid))
OneRecordSaved ==
    /\ file.k = "store"
    /\ StoreSize(file) = next_uuid
    /\ DictHas(load_metadata(file).val.UUID, Str(next_uuid))
    /\ SavedRecord.Path = file_paths

Printed(kind) == \E i \in 1..Len(out) : out[i] = Say(kind)

\* C15: when FFmpeg is not found for a video or audio file, the extraction
\* returns None, the add ends without a record for the file, and the
\* backing file holds what it held when the add began.
C15_EncoderAbsentNoRecord ==
    Printed("FFmpegNotFound") =>
        /\ pc = "Crashed"
        /\ ~DictHas(metadata.UUID, IntKey(next_uuid))
        /\ StoreSize(file) = next_uuid - 1
        /\ load_metadata(file).val = metadata

C15_Witness ==
    /\ Printed("FFmpegNotFound")
    /\ Head(queue) = "Video"
    /\ err = Err("add_to_index:paths.copy", "AttributeError")
    /\ StoreSize(file) = 1

\* A file of the running command failed: it was missing, or FFmpeg failed
\* or was not found for it.
FileFailed ==
    Printed("FileMissing") \/ Printed("FFmpegFailed") \/ Printed("FFmpegNotFound")

\* C16: a command does not end on a failed file while later files of the
\* command are still waiting: the failed file is skipped and the files
\* after it are added.
C16_RemainingFilesAdded ==
    (FileFailed /\ pc \in Ended) => (pc = "Exit0" \/ Len(queue) <= 1)

\* ------------------------------------------------ claims: query requests
IsAnswer(r) == r.kind = "answer"
\* The answer requests among the first n requests of the query.
AnswersIn(n) == SelectSeq(SubSeq(reqs, 1, n), IsAnswer)

\* C17: the requests of one query are, in this order: one selector request,
\* sent before anything else; for each id of the selector's list, in the
\* order of the list, the uploads of that record and then its answer
\* request; and last, after the answer request of the last id, at most one
\* synthesis request.
C17_RequestOrder ==
    /\ pc \in {"Idle", "SelectingRelevance"} => reqs = <<>>
    /\ reqs # <<>> =>
        /\ reqs[1].kind = "select"
        /\ \A i \in 2..Len(reqs) : reqs[i].kind # "select"
        /\ Len(AnswersIn(Len(reqs))) <= Len(relevant_ids)
        /\ \A j \in 1..Len(AnswersIn(Len(reqs))) :
               AnswersIn(Len(reqs))[j].id = relevant_ids[j]
        /\ \A i \in 1..Len(reqs) :
               /\ reqs[i].kind = "upload" =>
                      /\ Len(AnswersIn(i)) < Len(relevant_ids)
                      /\ reqs[i].id = relevant_ids[Len(AnswersIn(i)) + 1]
               /\ reqs[i].kind = "synth" =>
                      /\ i = Len(reqs)
                      /\ Len(AnswersIn(i)) = Len(relevant_ids)
                      /\ reqs[i - 1].kind = "answer"

C17_Witness ==
    /\ relevant_ids = <<2, 1>>
    /\ Len(reqs) = 6
    /\ reqs[2] = Req("answer", 2, 0)
    /\ reqs[3] = Req("upload", 1, 1)
    /\ reqs[5] = Req("answer", 1, 2)
    /\ reqs[6].kind = "synth"

\* How many times the last request of the query was sent.
TimesLastSent == Cardinality({i \in 1..Len(reqs) : reqs[i] = reqs[Len(reqs)]})

\* C18: a failure of the service is reported to the caller only after the
\* failed request was sent MAX_API_RETRIES times: here for an upload of the
\* per-record answering, whose failure ends the query.
C18_FailedCallRetried ==
    (pc = "Crashed" /\ err.exc = "APIError") => TimesLastSent = MAX_API_RETRIES

\* C19: in the per-record answering no answer request goes out without a
\* file (a record whose files are all missing is not asked about), and no
\* answer to such a request is in the synthesis context.
C19_AllMissingNoAnswer ==
    /\ \A i \in 1..Len(reqs) : reqs[i].kind = "answer" => reqs[i].n >= 1
    /\ \A j \in 1..Len(synthesis_context) :
           Req("answer", synthesis_context[j].uuid, 0) \notin
               {reqs[i] : i \in 1..Len(reqs)}

\* ------------------------------------------- claims: indexing, missing files
\* C20: index_content leaves the files that do not exist out of its uploads
\* and of its request: while one of the files exists it does not fail on a
\* missing one, and its request carries the files that exist.
C20_MissingArtifactsDropped ==
    /\ paths # <<>> => ~(IndexRaised /\ err.exc = "FileNotFoundError")
    /\ IndexReturned => reqs[Len(reqs)] = Req("index", 0, Len(paths))

\* ------------------------------------------------ claims: the error marker
\* A text that is there, is not empty and does not begin with "Error:".
NoErrorPrefix(v) == Truthy(v) /\ v.text[1] # "Error:"

\* C21: query_lectures takes a returned text for a failure exactly when it
\* is None, empty or begins with "Error:": the per-record answers in the
\* synthesis context are those that are not such a failure, and the query
\* is Done exactly when the final answer is not such a failure.
C21_PrefixTest ==
    /\ pc \in {"Done", "Failed"} =>
           \A i \in 1..Len(individual_answers) :
               NoErrorPrefix(individual_answers[i].val)
                   <=> \E j \in 1..Len(synthesis_context) :
                           synthesis_context[j].uuid = individual_answers[i].key.n
    /\ SynthRequested => (pc = "Done" <=> NoErrorPrefix(final_answer))

\* ------------------------------------------------------ claims: the frame
\* The records a load finds in the file.
Stored(f) == load_metadata(f).val.UUID

\* C22: a step changes the file only when it is the save of an add (a query
\* never writes it), and a save over a store keeps every record of the
\* store under its id with its fields and adds one record, so the number of
\* records never goes down.
C22_StoreOnlyGrows ==
    [][\/ file' = file
       \/ /\ pc = "AddSave"
          /\ file.k = "store" =>
               /\ file'.k = "store"
               /\ \A i \in 1..Len(Stored(file)) :
                      /\ DictHas(Stored(file'), Stored(file)[i].key)
                      /\ DictGet(Stored(file'), Stored(file)[i].key) = Stored(file)[i].val
               /\ Len(Stored(file')) = Len(Stored(file)) + 1
               /\ Len(file'.entries) = Len(Stored(file'))]_vars

C22_Witness ==
    /\ JustSaved
    /\ next_uuid = 2
    /\ Len(Stored(file)) = 2
    /\ Stored(file)[1] = Stored(StoreOfSize(1))[1]
    /\ Stored(file)[2].val.Type = "Text"

\* ------------------------------------------------------- claims: the race
BothSaved == pc = "Race" /\ \A p \in Procs : procs[p].pc = "Saved"
\* Both processes loaded the file before either saved it.
Overlap == \A p \in Procs : procs[p].loadedAfter = {}
\* The process that saved second, and the one that saved first.
LaterProc == CHOOSE p \in Procs : procs[p].savedAfter # {}
EarlierProc == CHOOSE p \in Procs : p # LaterProc

\* C23: once two add processes have both saved: if both had loaded the
\* file before either saved, they allocated the same id, the file is the
\* dict of the process that saved second, with one record more than was
\* loaded, and the record of the process that saved first is not in it; if
\* the second process loaded after the first had saved, the ids follow each
\* other and both records are in the file under their ids.
C23_RaceLosesOneRecord ==
    BothSaved =>
        LET l == procs[LaterProc]
            e == procs[EarlierProc]
        IN IF Overlap
           THEN /\ l.next_uuid = e.next_uuid
                /\ file = save_metadata(l.metadata)
                /\ Len(Stored(file)) = l.next_uuid
                /\ DictGet(Stored(file), Str(l.next_uuid)) = l.data
                /\ \A i \in 1..Len(Stored(file)) : Stored(file)[i].val # e.data
           ELSE /\ l.next_uuid = e.next_uuid + 1
                /\ Len(Stored(file)) = l.next_uuid
                /\ DictGet(Stored(file), Str(e.next_uuid)) = e.data
                /\ DictGet(Stored(file), Str(l.next_uuid)) = l.data

C23_Witness ==
    /\ BothSaved
    /\ Overlap
    /\ procs[1].savedAfter = {2}
    /\ procs[1].next_uuid = 2
    /\ procs[2].next_uuid = 2
    /\ Len(Stored(file)) = 2

====
